---- MODULE Spec2Model ----
(***************************************************************************)
(* The shared MPSC ring buffer of hires-logger: the user-space producer    *)
(* HiResConn::log and the consumer HiResConn::pop (rt/src/rt.cpp) and the  *)
(* kernel producer hires_log (khires/khires.c), one action per access to   *)
(* the shared region.                                                      *)
(***************************************************************************)
EXTENDS Integers, Sequences, FiniteSets, TLC

\* ------------------------------------------------------------------ bounds
\* Module parameter rb_size_log2 (khires.c:28); the ring has 2^rb_size_log2 slots.
rb_size_log2 == 1
\* Number of publish calls (log and hires_log together) made in a run.
MaxCalls == 4

\* Number of HIRES_IOCTL_RESET_RB requests made in a run.
MaxResets == 1
\* Largest value of the module parameter tried when the module is loaded.
MaxLog2 == 7

\* --------------------------------------------------------------- constants
max_spins == 100
LOG_FLAG_VALID == 1
LOG_FLAG_KERNEL == 2
RING_BUFFER_LOG2_SIZE == 16
\* Bytes of the control block in front of buffer[]: three cache lines.
SHARED_RING_BUFFER_CTRL_SIZE == 192
\* sizeof(log_entry_t)
sizeof_log_entry_t == 32
PAGE_SIZE == 4096

\* Threads calling HiResConn::log, threads calling hires_log.
UserProcs == {"u1", "u2"}
KernProcs == {"k1"}
Procs == UserProcs \cup KernProcs

\* calculated_ring_buffer_entries = (1UL << rb_size_log2)
capacity == 2 ^ rb_size_log2
\* shared_buffer->idx_mask = calculated_ring_buffer_entries - 1
idx_mask == capacity - 1

\* x & idx_mask, for idx_mask = 2^k - 1
AndMask(x) == x % (idx_mask + 1)

\* flags & bit # 0, for a single-bit mask
HasFlag(flags, bit) == (flags \div bit) % 2 = 1
\* flags & ~bit
ClearFlag(flags, bit) == IF HasFlag(flags, bit) THEN flags - bit ELSE flags
\* flags | bit
SetFlag(flags, bit) == IF HasFlag(flags, bit) THEN flags ELSE flags + bit

\* (a - b) >= c in unsigned 64-bit arithmetic, for a, b, c < 2^63: when a < b
\* the difference wraps to a + 2^64 - b, which is above every such c.
U64SubGeq(a, b, c) == IF a >= b THEN a - b >= c ELSE TRUE

VARIABLES
  head,           \* shared_buffer->head
  tail,           \* shared_buffer->tail
  dropped_count,  \* shared_buffer->dropped_count
  buffer,         \* shared_buffer->buffer[]: event_id, data1, flags of each slot
  prod,           \* each producer thread: position and locals of its call
  cons,           \* the consumer thread: position and locals of its pop()
  calls,          \* history: the publish calls in the order of their fetch-add
  popped,         \* history: the entries returned by successful pop() calls
  ioctl,          \* the thread inside ioctl(HIRES_IOCTL_RESET_RB): position and locals
  hdr,            \* shared_buffer->capacity, idx_mask, shm_size_bytes_*
  conn,           \* a HiResConn under construction: position, fields, exception
  kmod,           \* hireslogger_km_init: position, locals and return value
  capi,           \* the thread using the C API (rt_c.cpp): position, its
                  \* thread-local last_error_message and what its last call was
  conv            \* a caller of the Cycles conversion helpers (cycles.cc): the
                  \* helper, the frequency, two arguments and their results

\* The control plane: module load, handle construction, the ioctl requests.
ctl == <<ioctl, hdr, conn, kmod, capi, conv>>

vars == <<head, tail, dropped_count, buffer, prod, cons, calls, popped, ctl>>

\* A zero-filled slot (alloc_page(GFP_KERNEL | __GFP_ZERO)).
ZeroEntry == [event_id |-> 0, data1 |-> 0, flags |-> 0]

IdleProd == [pc |-> "idle", head |-> 0, tail |-> 0, event_id |-> 0, old_flags |-> 0]
IdleCons == [pc |-> "idle", tail |-> 0, spin_count |-> 0,
             result_entry |-> ZeroEntry, current_flags |-> 0]

\* 1UL << n, for 0 <= n < 64
Shl1(n) == 2 ^ n
\* PAGE_ALIGN(x)
PAGE_ALIGN(x) == ((x + PAGE_SIZE - 1) \div PAGE_SIZE) * PAGE_SIZE
\* calculated_buffer_total_size_unaligned
km_size_unaligned(log2) == SHARED_RING_BUFFER_CTRL_SIZE + Shl1(log2) * sizeof_log_entry_t
\* buffer_num_pages = buffer_total_size / PAGE_SIZE
km_num_pages(log2) == PAGE_ALIGN(km_size_unaligned(log2)) \div PAGE_SIZE

\* The geometry fields before the header is initialised (zeroed pages).
ZeroHdr == [capacity |-> 0, idx_mask |-> 0,
            shm_size_bytes_unaligned |-> 0, shm_size_bytes_aligned |-> 0]
\* shared_buffer->capacity = calculated_ring_buffer_entries; ->idx_mask = ... - 1;
\* ->shm_size_bytes_unaligned = ...; ->shm_size_bytes_aligned = buffer_total_size
km_header(log2) ==
  [capacity |-> Shl1(log2), idx_mask |-> Shl1(log2) - 1,
   shm_size_bytes_unaligned |-> km_size_unaligned(log2),
   shm_size_bytes_aligned |-> PAGE_ALIGN(km_size_unaligned(log2))]

\* What hireslogger_km_init has acquired, or released, so far: the page
\* pointer array, pages, the kernel mapping, the device number, the class,
\* the cdev, the device node.
NoResources == [array |-> 0, pages |-> 0, vmap |-> 0, dev_num |-> 0, class |-> 0,
                cdev |-> 0, device |-> 0]

\* insmod with rb_size_log2 = log2, before hireslogger_km_init runs.
\* buffer_pages and shared_buffer: the static pointer is not NULL; acq and
\* rel: the resources acquired and released by the function so far.
StartKm(log2) == [pc |-> "calibrate", ret |-> "none", rb_size_log2 |-> log2,
                  cycles_per_us |-> 0, tsc_cycle |-> 0, buffer_num_pages |-> 0, i |-> 0,
                  buffer_pages |-> FALSE, shared_buffer |-> FALSE,
                  acq |-> NoResources, rel |-> NoResources]
\* hireslogger_km_init has returned 0.
LoadedKm(log2) == [pc |-> "loaded", ret |-> "0", rb_size_log2 |-> log2,
                   cycles_per_us |-> 1, tsc_cycle |-> 1, buffer_num_pages |-> km_num_pages(log2),
                   i |-> km_num_pages(log2),
                   buffer_pages |-> TRUE, shared_buffer |-> TRUE,
                   acq |-> [array |-> 1, pages |-> km_num_pages(log2), vmap |-> 1,
                            dev_num |-> 1, class |-> 1, cdev |-> 1, device |-> 1],
                   rel |-> NoResources]

\* No HIRES_IOCTL_RESET_RB in progress. resets counts the finished requests
\* and base is the number of publish calls made before the last one finished.
IdleIoctl == [pc |-> "idle", i |-> 0, old_flags |-> 0, resets |-> 0, base |-> 0]

\* std::nullopt of std::optional<hires_rb_meta_t>
NoMeta == [has_value |-> FALSE, capacity |-> 0, idx_mask |-> 0,
           shm_size_bytes_unaligned |-> 0]
\* The members of HiResConn before its constructor runs (rt.hpp:20-24).
NoConn == [pc |-> "none", fd_ |-> -1, shm_buf_ |-> FALSE,
           rb_runtime_capacity_ |-> 0, rb_runtime_idx_mask_ |-> 0,
           rb_runtime_shm_size_ |-> 0, rb_runtime_cycle_per_us_ |-> 0,
           thrown |-> "none", meta |-> NoMeta]

\* The C API thread before its first call: last_error_message is empty.
\* fn, ret, bad and raised describe its last call: the function, what it
\* returned, which argument was NULL, and the exception the call caught.
IdleCapi == [pc |-> "idle", last_error |-> "", handle |-> FALSE, fn |-> "none",
             ret |-> "none", bad |-> "none", raised |-> "none", mark |-> 0]

\* No conversion helper has been called.
IdleConv == [pc |-> "idle", fn |-> "none", cycles_per_us |-> 1, x |-> 0, y |-> 0,
             rx |-> 0, ry |-> 0]

\* The ring as hireslogger_km_init leaves it.
InitRing ==
  /\ head = 0
  /\ tail = 0
  /\ dropped_count = 0
  /\ buffer = [i \in 0..(capacity - 1) |-> ZeroEntry]
  /\ prod = [p \in Procs |-> IdleProd]
  /\ cons = IdleCons
  /\ calls = <<>>
  /\ popped = <<>>
  /\ ioctl = IdleIoctl
  /\ conn = NoConn
  /\ capi = IdleCapi
  /\ conv = IdleConv

\* The module is loaded with rb_size_log2 and no handle is attached yet.
Init ==
  /\ InitRing
  /\ hdr = km_header(rb_size_log2)
  /\ kmod = LoadedKm(rb_size_log2)

\* ------------------------------------------------- HiResConn::log (rt.cpp)

\* (head - tail) >= get_rb_capacity()
log_full(h, t) == U64SubGeq(h, t, capacity)

\* size_t head = atomic_head.fetch_add(1, acq_rel). The k-th call of a run
\* passes event_id = data1 = k, so that an entry names the call that wrote it.
log_fetch_add_head(p) ==
  /\ prod[p].pc = "idle"
  /\ Len(calls) < MaxCalls
  /\ prod' = [prod EXCEPT ![p] = [IdleProd EXCEPT !.pc = "load_tail",
                                    !.head = head, !.event_id = Len(calls) + 1]]
  /\ head' = head + 1
  /\ calls' = Append(calls, [h |-> head, kernel |-> FALSE, ret |-> "reserved"])
  /\ UNCHANGED <<ctl, tail, dropped_count, buffer, cons, popped>>

\* size_t tail = atomic_tail.load(acquire); if ((head - tail) >= capacity)
log_load_tail(p) ==
  /\ prod[p].pc = "load_tail"
  /\ LET full == log_full(prod[p].head, tail) IN
       /\ prod' = [prod EXCEPT ![p].tail = tail,
                               ![p].pc = IF full THEN "drop" ELSE "write_ts_ev"]
       /\ calls' = [calls EXCEPT ![prod[p].event_id].ret = IF full THEN "full" ELSE "writing"]
  /\ UNCHANGED <<ctl, head, tail, dropped_count, buffer, cons, popped>>

\* log_drop with the fetch_add on dropped_count left out.
log_drop_uncounted(p) ==
  /\ prod[p].pc = "drop"
  /\ calls' = [calls EXCEPT ![prod[p].event_id].ret = "Dropped"]
  /\ prod' = [prod EXCEPT ![p] = IdleProd]
  /\ UNCHANGED <<ctl, head, tail, dropped_count, buffer, cons, popped>>

\* log_drop that also marks the abandoned slot as not published.
log_drop_clearing(p) ==
  /\ prod[p].pc = "drop"
  /\ dropped_count' = dropped_count + 1
  /\ buffer' = [buffer EXCEPT ![AndMask(prod[p].head)].flags =
                                ClearFlag(@, LOG_FLAG_VALID)]
  /\ calls' = [calls EXCEPT ![prod[p].event_id].ret = "Dropped"]
  /\ prod' = [prod EXCEPT ![p] = IdleProd]
  /\ UNCHANGED <<ctl, head, tail, cons, popped>>

\* atomic_dropped.fetch_add(1, relaxed); return false
log_drop(p) ==
  /\ prod[p].pc = "drop"
  /\ dropped_count' = dropped_count + 1
  /\ calls' = [calls EXCEPT ![prod[p].event_id].ret = "Dropped"]
  /\ prod' = [prod EXCEPT ![p] = IdleProd]
  /\ UNCHANGED <<ctl, head, tail, buffer, cons, popped>>

\* entry->timestamp = get_monotonic_ns(); entry->event_id = event_id
log_write_ts_ev(p) ==
  /\ prod[p].pc = "write_ts_ev"
  /\ buffer' = [buffer EXCEPT ![AndMask(prod[p].head)].event_id = prod[p].event_id]
  /\ prod' = [prod EXCEPT ![p].pc = "write_data"]
  /\ UNCHANGED <<ctl, head, tail, dropped_count, cons, calls, popped>>

\* entry->cpu_id = ...; entry->data1 = data1; entry->data2 = data2
log_write_data(p) ==
  /\ prod[p].pc = "write_data"
  /\ buffer' = [buffer EXCEPT ![AndMask(prod[p].head)].data1 = prod[p].event_id]
  /\ prod' = [prod EXCEPT ![p].pc = "store_flags"]
  /\ UNCHANGED <<ctl, head, tail, dropped_count, cons, calls, popped>>

\* atomic_flags.store(initial_flags | LOG_FLAG_VALID, release); return true
log_store_flags(p) ==
  /\ prod[p].pc = "store_flags"
  /\ buffer' = [buffer EXCEPT ![AndMask(prod[p].head)].flags = SetFlag(0, LOG_FLAG_VALID)]
  /\ calls' = [calls EXCEPT ![prod[p].event_id].ret = "Ok"]
  /\ prod' = [prod EXCEPT ![p] = IdleProd]
  /\ UNCHANGED <<ctl, head, tail, dropped_count, cons, popped>>

log(p) ==
  \/ log_fetch_add_head(p)
  \/ log_load_tail(p)
  \/ log_drop(p)
  \/ log_write_ts_ev(p)
  \/ log_write_data(p)
  \/ log_store_flags(p)

\* ------------------------------------------------- hires_log (khires.c)

\* current_idx == tail_val && (head_val - tail_val) >= shared_buffer->capacity,
\* with current_idx = head_val & shared_buffer->idx_mask
hires_log_full(h, t) == AndMask(h) = t /\ U64SubGeq(h, t, capacity)

\* head_val = atomic64_fetch_add_acquire(1, &shared_buffer->head)
hires_log_fetch_add_head(p) ==
  /\ prod[p].pc = "idle"
  /\ Len(calls) < MaxCalls
  /\ prod' = [prod EXCEPT ![p] = [IdleProd EXCEPT !.pc = "load_tail",
                                    !.head = head, !.event_id = Len(calls) + 1]]
  /\ head' = head + 1
  /\ calls' = Append(calls, [h |-> head, kernel |-> TRUE, ret |-> "reserved"])
  /\ UNCHANGED <<ctl, tail, dropped_count, buffer, cons, popped>>

\* tail_val = atomic64_read_acquire(&shared_buffer->tail); if (unlikely(...))
hires_log_load_tail(p) ==
  /\ prod[p].pc = "load_tail"
  /\ LET full == hires_log_full(prod[p].head, tail) IN
       /\ prod' = [prod EXCEPT ![p].tail = tail,
                               ![p].pc = IF full THEN "drop" ELSE "write_ts_ev"]
       /\ calls' = [calls EXCEPT ![prod[p].event_id].ret = IF full THEN "full" ELSE "writing"]
  /\ UNCHANGED <<ctl, head, tail, dropped_count, buffer, cons, popped>>

\* hires_log_drop that gives the reserved slot back: head is decremented.
hires_log_drop_rollback(p) ==
  /\ prod[p].pc = "drop"
  /\ dropped_count' = dropped_count + 1
  /\ head' = head - 1
  /\ calls' = [calls EXCEPT ![prod[p].event_id].ret = "Dropped"]
  /\ prod' = [prod EXCEPT ![p] = IdleProd]
  /\ UNCHANGED <<ctl, tail, buffer, cons, popped>>

\* atomic64_inc(&shared_buffer->dropped_count); return -ENOMEM
hires_log_drop(p) ==
  /\ prod[p].pc = "drop"
  /\ dropped_count' = dropped_count + 1
  /\ calls' = [calls EXCEPT ![prod[p].event_id].ret = "Dropped"]
  /\ prod' = [prod EXCEPT ![p] = IdleProd]
  /\ UNCHANGED <<ctl, head, tail, buffer, cons, popped>>

\* entry->timestamp = __rdtscp(&entry->cpu_id); entry->event_id = event_id
hires_log_write_ts_ev(p) ==
  /\ prod[p].pc = "write_ts_ev"
  /\ buffer' = [buffer EXCEPT ![AndMask(prod[p].head)].event_id = prod[p].event_id]
  /\ prod' = [prod EXCEPT ![p].pc = "write_data"]
  /\ UNCHANGED <<ctl, head, tail, dropped_count, cons, calls, popped>>

\* entry->data1 = data1; entry->data2 = data2; smp_wmb()
hires_log_write_data(p) ==
  /\ prod[p].pc = "write_data"
  /\ buffer' = [buffer EXCEPT ![AndMask(prod[p].head)].data1 = prod[p].event_id]
  /\ prod' = [prod EXCEPT ![p].pc = "read_flags"]
  /\ UNCHANGED <<ctl, head, tail, dropped_count, cons, calls, popped>>

\* old_flags = READ_ONCE(entry->flags)
hires_log_read_flags(p) ==
  /\ prod[p].pc = "read_flags"
  /\ prod' = [prod EXCEPT ![p].old_flags = buffer[AndMask(prod[p].head)].flags,
                          ![p].pc = "cmpxchg"]
  /\ UNCHANGED <<ctl, head, tail, dropped_count, buffer, cons, calls, popped>>

\* new_flags = (old_flags & ~LOG_FLAG_VALID) | LOG_FLAG_VALID | LOG_FLAG_KERNEL
hires_log_new_flags(old_flags) ==
  SetFlag(SetFlag(ClearFlag(old_flags, LOG_FLAG_VALID), LOG_FLAG_VALID), LOG_FLAG_KERNEL)

\* } while (cmpxchg(&entry->flags, old_flags, new_flags) != old_flags); return 0
hires_log_cmpxchg(p) ==
  /\ prod[p].pc = "cmpxchg"
  /\ IF buffer[AndMask(prod[p].head)].flags = prod[p].old_flags
       THEN /\ buffer' = [buffer EXCEPT ![AndMask(prod[p].head)].flags =
                                           hires_log_new_flags(prod[p].old_flags)]
            /\ calls' = [calls EXCEPT ![prod[p].event_id].ret = "Ok"]
            /\ prod' = [prod EXCEPT ![p] = IdleProd]
       ELSE /\ prod' = [prod EXCEPT ![p].pc = "read_flags"]
            /\ UNCHANGED <<buffer, calls>>
  /\ UNCHANGED <<ctl, head, tail, dropped_count, cons, popped>>

hires_log(p) ==
  \/ hires_log_fetch_add_head(p)
  \/ hires_log_load_tail(p)
  \/ hires_log_drop(p)
  \/ hires_log_write_ts_ev(p)
  \/ hires_log_write_data(p)
  \/ hires_log_read_flags(p)
  \/ hires_log_cmpxchg(p)

\* ------------------------------------------------- HiResConn::pop (rt.cpp)

\* size_t tail = atomic_tail.load(relaxed)
pop_load_tail ==
  /\ cons.pc = "idle"
  /\ cons' = [IdleCons EXCEPT !.pc = "load_head", !.tail = tail]
  /\ UNCHANGED <<ctl, head, tail, dropped_count, buffer, prod, calls, popped>>

\* size_t head = atomic_head.load(acquire); if (tail == head) return nullopt
pop_load_head ==
  /\ cons.pc = "load_head"
  /\ cons' = IF cons.tail = head THEN IdleCons
             ELSE [cons EXCEPT !.pc = "wait_valid"]
  /\ UNCHANGED <<ctl, head, tail, dropped_count, buffer, prod, calls, popped>>

\* pop_spin_exhausted with a post-increment: spin_count++ > max_spins.
pop_spin_exhausted_post(spin_count) == spin_count > max_spins

\* if (++spin_count > max_spins), with spin_count the value before the increment
pop_spin_exhausted(spin_count) == spin_count + 1 > max_spins

\* pop_wait_valid that takes the slot when the spin budget is spent, VALID or
\* not.
pop_wait_valid_impatient ==
  /\ cons.pc = "wait_valid"
  /\ cons' = IF HasFlag(buffer[AndMask(cons.tail)].flags, LOG_FLAG_VALID)
               THEN [cons EXCEPT !.pc = "copy"]
             ELSE IF pop_spin_exhausted(cons.spin_count) THEN [cons EXCEPT !.pc = "copy"]
             ELSE [cons EXCEPT !.spin_count = cons.spin_count + 1]
  /\ UNCHANGED <<ctl, head, tail, dropped_count, buffer, prod, calls, popped>>

\* pop_wait_valid that gives up on the slot when the spin budget is spent:
\* tail is advanced past it.
pop_wait_valid_skipping ==
  /\ cons.pc = "wait_valid"
  /\ cons' = IF HasFlag(buffer[AndMask(cons.tail)].flags, LOG_FLAG_VALID)
               THEN [cons EXCEPT !.pc = "copy"]
             ELSE IF pop_spin_exhausted(cons.spin_count) THEN IdleCons
             ELSE [cons EXCEPT !.spin_count = cons.spin_count + 1]
  /\ tail' = IF ~HasFlag(buffer[AndMask(cons.tail)].flags, LOG_FLAG_VALID)
                 /\ pop_spin_exhausted(cons.spin_count)
               THEN cons.tail + 1 ELSE tail
  /\ UNCHANGED <<ctl, head, dropped_count, buffer, prod, calls, popped>>

\* while ((atomic_flags.load(acquire) & LOG_FLAG_VALID) == 0) {
\*   if (++spin_count > max_spins) return nullopt; yield(); }
pop_wait_valid ==
  /\ cons.pc = "wait_valid"
  /\ cons' = IF HasFlag(buffer[AndMask(cons.tail)].flags, LOG_FLAG_VALID)
               THEN [cons EXCEPT !.pc = "copy"]
             ELSE IF pop_spin_exhausted(cons.spin_count) THEN IdleCons
             ELSE [cons EXCEPT !.spin_count = cons.spin_count + 1]
  /\ UNCHANGED <<ctl, head, tail, dropped_count, buffer, prod, calls, popped>>

\* log_entry_t result_entry = *entry
pop_copy ==
  /\ cons.pc = "copy"
  /\ cons' = [cons EXCEPT !.result_entry = buffer[AndMask(cons.tail)],
                          !.pc = "load_flags"]
  /\ UNCHANGED <<ctl, head, tail, dropped_count, buffer, prod, calls, popped>>

\* uint16_t current_flags = atomic_flags.load(relaxed)
pop_load_flags ==
  /\ cons.pc = "load_flags"
  /\ cons' = [cons EXCEPT !.current_flags = buffer[AndMask(cons.tail)].flags,
                          !.pc = "store_flags"]
  /\ UNCHANGED <<ctl, head, tail, dropped_count, buffer, prod, calls, popped>>

\* atomic_flags.store(current_flags & ~LOG_FLAG_VALID, relaxed)
pop_store_flags ==
  /\ cons.pc = "store_flags"
  /\ buffer' = [buffer EXCEPT ![AndMask(cons.tail)].flags =
                                ClearFlag(cons.current_flags, LOG_FLAG_VALID)]
  /\ cons' = [cons EXCEPT !.pc = "store_tail"]
  /\ UNCHANGED <<ctl, head, tail, dropped_count, prod, calls, popped>>

\* atomic_tail.store(tail + 1, release); return result_entry
pop_store_tail ==
  /\ cons.pc = "store_tail"
  /\ tail' = cons.tail + 1
  /\ popped' = Append(popped, cons.result_entry)
  /\ cons' = IdleCons
  /\ UNCHANGED <<ctl, head, dropped_count, buffer, prod, calls>>

pop ==
  \/ pop_load_tail
  \/ pop_load_head
  \/ pop_wait_valid
  \/ pop_copy
  \/ pop_load_flags
  \/ pop_store_flags
  \/ pop_store_tail

\* pop() with its clearing of VALID left out: after the copy, neither the load
\* of the flags nor the store of current_flags & ~LOG_FLAG_VALID is made.
pop_without_clear ==
  /\ cons.pc = "load_flags"
  /\ cons' = [cons EXCEPT !.pc = "store_tail"]
  /\ UNCHANGED <<ctl, head, tail, dropped_count, buffer, prod, calls, popped>>

\* ------------------------------ hireslogger_dev_ioctl: RESET_RB (khires.c)

\* The ring and the history of its calls.
ring == <<head, tail, dropped_count, buffer, prod, cons, calls, popped>>

\* atomic64_set(&shared_buffer->head, 0)
ioctl_reset_head ==
  /\ ioctl.pc = "idle"
  /\ ioctl.resets < MaxResets
  /\ head' = 0
  /\ ioctl' = [ioctl EXCEPT !.pc = "reset_tail"]
  /\ UNCHANGED <<conv, capi, tail, dropped_count, buffer, prod, cons, calls, popped, hdr, conn, kmod>>

\* ioctl_reset_tail with the store to tail left out.
ioctl_reset_tail_skipped ==
  /\ ioctl.pc = "reset_tail"
  /\ ioctl' = [ioctl EXCEPT !.pc = "reset_dropped"]
  /\ UNCHANGED <<conv, capi, ring, hdr, conn, kmod>>

\* atomic64_set(&shared_buffer->tail, 0)
ioctl_reset_tail ==
  /\ ioctl.pc = "reset_tail"
  /\ tail' = 0
  /\ ioctl' = [ioctl EXCEPT !.pc = "reset_dropped"]
  /\ UNCHANGED <<conv, capi, head, dropped_count, buffer, prod, cons, calls, popped, hdr, conn, kmod>>

\* ioctl_reset_dropped that also clears the capacity field of the header.
ioctl_reset_dropped_and_capacity ==
  /\ ioctl.pc = "reset_dropped"
  /\ dropped_count' = 0
  /\ hdr' = [hdr EXCEPT !.capacity = 0]
  /\ ioctl' = [ioctl EXCEPT !.pc = "read_flags", !.i = 0]
  /\ UNCHANGED <<conv, capi, head, tail, buffer, prod, cons, calls, popped, conn, kmod>>

\* atomic64_set(&shared_buffer->dropped_count, 0); smp_wmb(); i = 0
ioctl_reset_dropped ==
  /\ ioctl.pc = "reset_dropped"
  /\ dropped_count' = 0
  /\ ioctl' = [ioctl EXCEPT !.pc = "read_flags", !.i = 0]
  /\ UNCHANGED <<conv, capi, head, tail, buffer, prod, cons, calls, popped, hdr, conn, kmod>>

\* old_flags = READ_ONCE(entry->flags), entry = &shared_buffer->buffer[i]
ioctl_reset_read_flags ==
  /\ ioctl.pc = "read_flags"
  /\ ioctl' = [ioctl EXCEPT !.old_flags = buffer[ioctl.i].flags, !.pc = "cmpxchg"]
  /\ UNCHANGED <<conv, capi, ring, hdr, conn, kmod>>

\* } while (cmpxchg(&entry->flags, old_flags, old_flags & ~LOG_FLAG_VALID) !=
\* old_flags); ++i; after the last slot: smp_wmb(); ret = 0
ioctl_reset_cmpxchg ==
  /\ ioctl.pc = "cmpxchg"
  /\ IF buffer[ioctl.i].flags = ioctl.old_flags
       THEN /\ buffer' = [buffer EXCEPT ![ioctl.i].flags =
                                           ClearFlag(ioctl.old_flags, LOG_FLAG_VALID)]
            /\ ioctl' = IF ioctl.i + 1 < capacity
                          THEN [ioctl EXCEPT !.i = ioctl.i + 1, !.pc = "read_flags"]
                        ELSE [IdleIoctl EXCEPT !.resets = ioctl.resets + 1,
                                               !.base = Len(calls)]
       ELSE /\ ioctl' = [ioctl EXCEPT !.pc = "read_flags"]
            /\ UNCHANGED buffer
  /\ UNCHANGED <<conv, capi, head, tail, dropped_count, prod, cons, calls, popped, hdr, conn, kmod>>

ioctl_reset ==
  \/ ioctl_reset_head
  \/ ioctl_reset_tail
  \/ ioctl_reset_dropped
  \/ ioctl_reset_read_flags
  \/ ioctl_reset_cmpxchg

\* ---------------------------- hireslogger_dev_ioctl: GET_RB_META (khires.c)

\* meta.capacity = READ_ONCE(shared_buffer->capacity); ...; copy_to_user(): the
\* record the request returns, or none when copy_to_user fails (-EFAULT).
ioctl_get_rb_meta(ok) ==
  IF ok THEN [has_value |-> TRUE, capacity |-> hdr.capacity, idx_mask |-> hdr.idx_mask,
              shm_size_bytes_unaligned |-> hdr.shm_size_bytes_unaligned]
  ELSE NoMeta

\* -------------------------------------------- HiResConn::HiResConn (rt.cpp)

\* sizeof(shared_ring_buffer_t) of the header the library is compiled with
SHARED_RING_BUFFER_TOTAL_SIZE ==
  SHARED_RING_BUFFER_CTRL_SIZE + Shl1(RING_BUFFER_LOG2_SIZE) * sizeof_log_entry_t

\* throw HiResError(...) / throw_system_error(...): the constructor ends with
\* an exception of the given type.
Throw(c, type) == [c EXCEPT !.pc = "thrown", !.thrown = type]

\* rb_runtime_shm_size_ = SHARED_RING_BUFFER_TOTAL_SIZE; if (... < CTRL_SIZE)
\* throw HiResError; fd_ = open(); if (fd_ == -1) throw_system_error
ctor_open ==
  /\ conn.pc = "none"
  /\ \E ok \in BOOLEAN :
       conn' = IF SHARED_RING_BUFFER_TOTAL_SIZE < SHARED_RING_BUFFER_CTRL_SIZE
                 THEN Throw([conn EXCEPT !.rb_runtime_shm_size_ = SHARED_RING_BUFFER_TOTAL_SIZE],
                            "HiResError")
               ELSE IF ok
                 THEN [conn EXCEPT !.rb_runtime_shm_size_ = SHARED_RING_BUFFER_TOTAL_SIZE,
                                   !.fd_ = 3, !.pc = "get_rb_meta"]
               ELSE Throw([conn EXCEPT !.rb_runtime_shm_size_ = SHARED_RING_BUFFER_TOTAL_SIZE],
                          "std::system_error")
  /\ UNCHANGED <<conv, capi, ring, ioctl, hdr, kmod>>

\* rb_runtime_capacity_ = meta.capacity; rb_runtime_idx_mask_ = meta.idx_mask;
\* rb_runtime_shm_size_ = meta.shm_size_bytes_unaligned
set_runtime_rb_meta(c, meta) ==
  [c EXCEPT !.rb_runtime_capacity_ = meta.capacity,
            !.rb_runtime_idx_mask_ = meta.idx_mask,
            !.rb_runtime_shm_size_ = meta.shm_size_bytes_unaligned]

\* auto rb_meta = get_rb_meta(); if (!rb_meta.has_value()) throw HiResError;
\* set_runtime_rb_meta(*rb_meta)
ctor_get_rb_meta ==
  /\ conn.pc = "get_rb_meta"
  /\ \E ok \in BOOLEAN :
       LET rb_meta == ioctl_get_rb_meta(ok) IN
         conn' = IF ~rb_meta.has_value
                   THEN Throw([conn EXCEPT !.meta = rb_meta], "HiResError")
                 ELSE [set_runtime_rb_meta(conn, rb_meta) EXCEPT !.meta = rb_meta,
                                                                !.pc = "get_cycles"]
  /\ UNCHANGED <<conv, capi, ring, ioctl, hdr, kmod>>

\* HIRES_IOCTL_GET_TSC_CYCLE_PER_MS: if (cycles_per_us == 0) ret = -EFAULT;
\* else if (put_user(cycles_per_us, user_ptr)) ret = -EFAULT; else ret = 0.
\* ok: the request reaches the handler and put_user succeeds.
ioctl_get_cycles(ok) ==
  IF kmod.cycles_per_us = 0 \/ ~ok THEN [ret |-> "-EFAULT", value |-> 0]
  ELSE [ret |-> "0", value |-> kmod.cycles_per_us]

\* ioctl_ret = ioctl(...); if (ioctl_ret < 0) return 0; return cycles_per_us
get_kmod_cycles_per_us(ok) ==
  IF ioctl_get_cycles(ok).ret # "0" THEN 0 ELSE ioctl_get_cycles(ok).value

\* set_runtime_cycle_per_us(get_kmod_cycles_per_us()): nothing is thrown
ctor_get_cycles ==
  /\ conn.pc = "get_cycles"
  /\ \E ok \in BOOLEAN :
       conn' = [conn EXCEPT !.rb_runtime_cycle_per_us_ = get_kmod_cycles_per_us(ok),
                            !.pc = "mmap"]
  /\ UNCHANGED <<conv, capi, ring, ioctl, hdr, kmod>>

\* hireslogger_dev_mmap: requested_size > buffer_total_size is rejected
hireslogger_dev_mmap(requested_size) == PAGE_ALIGN(requested_size) <= hdr.shm_size_bytes_aligned

\* mapped_ptr = mmap(NULL, get_rb_shm_size(), ...); if (mapped_ptr == MAP_FAILED)
\* { close(fd_); fd_ = -1; throw_system_error } shm_buf_ = mapped_ptr
ctor_mmap ==
  /\ conn.pc = "mmap"
  /\ \E ok \in BOOLEAN :
       conn' = IF ok /\ hireslogger_dev_mmap(conn.rb_runtime_shm_size_)
                 THEN [conn EXCEPT !.shm_buf_ = TRUE, !.pc = "attached"]
               ELSE Throw([conn EXCEPT !.fd_ = -1], "std::system_error")
  /\ UNCHANGED <<conv, capi, ring, ioctl, hdr, kmod>>

HiResConn ==
  \/ ctor_open
  \/ ctor_get_rb_meta
  \/ ctor_get_cycles
  \/ ctor_mmap

\* HiResConn::get_rb_meta() called on the attached handle.
get_rb_meta ==
  /\ conn.pc = "attached"
  /\ \E ok \in BOOLEAN : conn' = [conn EXCEPT !.meta = ioctl_get_rb_meta(ok)]
  /\ UNCHANGED <<conv, capi, ring, ioctl, hdr, kmod>>

\* ------------------------------------------ hireslogger_km_init (khires.c)

\* The measurements of hires_calibrate_tsc: elapsed_tsc = end_tsc - start_tsc
\* in cycles, elapsed_ns = ktime_to_ns(end_time - start_time).
ElapsedTsc == {0, 1, 2, 4}
ElapsedNs == {-1, 0, 1000, 2000}

\* if (elapsed_ns <= 0) return 0;
\* cycles_per_us = div64_u64(elapsed_tsc * 1000, elapsed_ns); return cycles_per_us
hires_calibrate_tsc(elapsed_tsc, elapsed_ns) ==
  IF elapsed_ns <= 0 THEN 0 ELSE (elapsed_tsc * 1000) \div elapsed_ns

\* return ret, before the device exists
km_fail(ret) == [kmod EXCEPT !.pc = "failed", !.ret = ret]

\* km_calibrate without the test of tsc_cycle: the module goes on loading
\* whatever hires_calibrate_tsc returned.
km_calibrate_unchecked ==
  /\ kmod.pc = "calibrate"
  /\ \E elapsed_tsc \in ElapsedTsc, elapsed_ns \in ElapsedNs :
       LET c == hires_calibrate_tsc(elapsed_tsc, elapsed_ns) IN
         kmod' = [kmod EXCEPT !.cycles_per_us = c, !.tsc_cycle = c, !.pc = "size"]
  /\ UNCHANGED <<conv, capi, ring, ioctl, hdr, conn>>

\* tsc_cycle = hires_calibrate_tsc(); if (tsc_cycle == 0) return -EIO. The
\* global cycles_per_us is 0 until hires_calibrate_tsc assigns the quotient.
km_calibrate ==
  /\ kmod.pc = "calibrate"
  /\ \E elapsed_tsc \in ElapsedTsc, elapsed_ns \in ElapsedNs :
       LET c == hires_calibrate_tsc(elapsed_tsc, elapsed_ns) IN
         kmod' = IF c = 0 THEN [km_fail("-EIO") EXCEPT !.cycles_per_us = c]
                 ELSE [kmod EXCEPT !.cycles_per_us = c, !.tsc_cycle = c, !.pc = "size"]
  /\ UNCHANGED <<conv, capi, ring, ioctl, hdr, conn>>

\* calculated_ring_buffer_entries = (1UL << rb_size_log2); ...;
\* buffer_num_pages = buffer_total_size / PAGE_SIZE
km_size ==
  /\ kmod.pc = "size"
  /\ kmod' = [kmod EXCEPT !.buffer_num_pages = km_num_pages(kmod.rb_size_log2),
                          !.pc = "kcalloc"]
  /\ UNCHANGED <<conv, capi, ring, ioctl, hdr, conn>>

\* ret = ...; goto label
km_goto(label, ret) == [kmod EXCEPT !.pc = label, !.ret = ret]

\* buffer_pages = kcalloc(...); if (!buffer_pages) return -ENOMEM; i = 0
km_kcalloc ==
  /\ kmod.pc = "kcalloc"
  /\ \E ok \in BOOLEAN :
       kmod' = IF ~ok THEN km_fail("-ENOMEM")
               ELSE [kmod EXCEPT !.i = 0, !.buffer_pages = TRUE, !.acq.array = 1,
                       !.pc = IF 0 < kmod.buffer_num_pages THEN "alloc_page" ELSE "vmap"]
  /\ UNCHANGED <<conv, capi, ring, ioctl, hdr, conn>>

\* buffer_pages[i] = alloc_page(GFP_KERNEL | __GFP_ZERO); if (!buffer_pages[i])
\* { ret = -ENOMEM; goto fail_alloc_pages; } ++i
km_alloc_page ==
  /\ kmod.pc = "alloc_page"
  /\ \E ok \in BOOLEAN :
       kmod' = IF ~ok THEN km_goto("fail_alloc_pages", "-ENOMEM")
               ELSE [kmod EXCEPT !.i = kmod.i + 1, !.acq.pages = @ + 1,
                       !.pc = IF kmod.i + 1 < kmod.buffer_num_pages THEN "alloc_page" ELSE "vmap"]
  /\ UNCHANGED <<conv, capi, ring, ioctl, hdr, conn>>

\* shared_buffer = vmap(...); if (!shared_buffer) { ret = -ENOMEM;
\* goto fail_alloc_pages; }
km_vmap ==
  /\ kmod.pc = "vmap"
  /\ \E ok \in BOOLEAN :
       kmod' = IF ~ok THEN km_goto("fail_alloc_pages", "-ENOMEM")
               ELSE [kmod EXCEPT !.shared_buffer = TRUE, !.acq.vmap = 1, !.pc = "header"]
  /\ UNCHANGED <<conv, capi, ring, ioctl, hdr, conn>>

\* shared_buffer->capacity = ...; ->idx_mask = ...; ->shm_size_bytes_* = ...;
\* atomic64_set(head, 0); atomic64_set(tail, 0); atomic64_set(dropped_count, 0)
km_init_header ==
  /\ kmod.pc = "header"
  /\ hdr' = km_header(kmod.rb_size_log2)
  /\ head' = 0
  /\ tail' = 0
  /\ dropped_count' = 0
  /\ kmod' = [kmod EXCEPT !.pc = "chrdev"]
  /\ UNCHANGED <<conv, capi, buffer, prod, cons, calls, popped, ioctl, conn>>

\* ret = alloc_chrdev_region(&dev_num, ...); if (ret < 0) goto fail_vmap
km_alloc_chrdev_region ==
  /\ kmod.pc = "chrdev"
  /\ \E ok \in BOOLEAN :
       kmod' = IF ~ok THEN km_goto("fail_vmap", "-errno")
               ELSE [kmod EXCEPT !.acq.dev_num = 1, !.pc = "class"]
  /\ UNCHANGED <<conv, capi, ring, ioctl, hdr, conn>>

\* hireslogger_class = class_create(CLASS_NAME); if (IS_ERR(...))
\* { ret = PTR_ERR(...); goto fail_chrdev_region; }
km_class_create ==
  /\ kmod.pc = "class"
  /\ \E ok \in BOOLEAN :
       kmod' = IF ~ok THEN km_goto("fail_chrdev_region", "-errno")
               ELSE [kmod EXCEPT !.acq.class = 1, !.pc = "cdev"]
  /\ UNCHANGED <<conv, capi, ring, ioctl, hdr, conn>>

\* cdev_init(); ret = cdev_add(&hires_cdev, dev_num, 1); if (ret < 0)
\* goto fail_class_create
km_cdev_add ==
  /\ kmod.pc = "cdev"
  /\ \E ok \in BOOLEAN :
       kmod' = IF ~ok THEN km_goto("fail_class_create", "-errno")
               ELSE [kmod EXCEPT !.acq.cdev = 1, !.pc = "device"]
  /\ UNCHANGED <<conv, capi, ring, ioctl, hdr, conn>>

\* device_create(hireslogger_class, NULL, dev_num, NULL, DEVICE_NAME), whose
\* result is not tested; return 0
km_device_create ==
  /\ kmod.pc = "device"
  /\ \E ok \in BOOLEAN :
       kmod' = [kmod EXCEPT !.acq.device = IF ok THEN 1 ELSE 0,
                            !.pc = "loaded", !.ret = "0"]
  /\ UNCHANGED <<conv, capi, ring, ioctl, hdr, conn>>

\* fail_class_create: class_destroy(hireslogger_class)
km_fail_class_create ==
  /\ kmod.pc = "fail_class_create"
  /\ kmod' = [kmod EXCEPT !.rel.class = @ + 1, !.pc = "fail_chrdev_region"]
  /\ UNCHANGED <<conv, capi, ring, ioctl, hdr, conn>>

\* fail_chrdev_region: unregister_chrdev_region(dev_num, 1)
km_fail_chrdev_region ==
  /\ kmod.pc = "fail_chrdev_region"
  /\ kmod' = [kmod EXCEPT !.rel.dev_num = @ + 1, !.pc = "fail_vmap"]
  /\ UNCHANGED <<conv, capi, ring, ioctl, hdr, conn>>

\* km_fail_vmap that unmaps the buffer and keeps the pointer.
km_fail_vmap_keeping_pointer ==
  /\ kmod.pc = "fail_vmap"
  /\ kmod' = [kmod EXCEPT !.rel.vmap = IF kmod.shared_buffer THEN @ + 1 ELSE @,
                          !.pc = "fail_alloc_pages"]
  /\ hdr' = IF kmod.shared_buffer THEN ZeroHdr ELSE hdr
  /\ UNCHANGED <<conv, capi, ring, ioctl, conn>>

\* fail_vmap: if (shared_buffer) { vunmap(shared_buffer); shared_buffer = NULL; }
km_fail_vmap ==
  /\ kmod.pc = "fail_vmap"
  /\ kmod' = [kmod EXCEPT !.rel.vmap = IF kmod.shared_buffer THEN @ + 1 ELSE @,
                          !.shared_buffer = FALSE,
                          !.pc = "fail_alloc_pages"]
  /\ hdr' = IF kmod.shared_buffer THEN ZeroHdr ELSE hdr
  /\ UNCHANGED <<conv, capi, ring, ioctl, conn>>

\* fail_alloc_pages: if (buffer_pages) { for each i: if (buffer_pages[i])
\* __free_page(buffer_pages[i]); kfree(buffer_pages); buffer_pages = NULL; }
\* return ret. kcalloc zeroed the array: its non-NULL entries are the pages
\* this function allocated and has not freed.
km_fail_alloc_pages ==
  /\ kmod.pc = "fail_alloc_pages"
  /\ kmod' = IF kmod.buffer_pages
               THEN [kmod EXCEPT !.rel.pages = @ + (kmod.acq.pages - kmod.rel.pages),
                                 !.rel.array = @ + 1,
                                 !.buffer_pages = FALSE,
                                 !.pc = "failed"]
             ELSE [kmod EXCEPT !.pc = "failed"]
  /\ UNCHANGED <<conv, capi, ring, ioctl, hdr, conn>>

\* if (!shared_buffer) { pr_warn(...); return -EIO; } at the head of hires_log
\* and of hireslogger_dev_ioctl
shared_buffer_guard == IF ~kmod.shared_buffer THEN "-EIO" ELSE "0"

hireslogger_km_init ==
  \/ km_calibrate
  \/ km_size
  \/ km_kcalloc
  \/ km_alloc_page
  \/ km_vmap
  \/ km_init_header
  \/ km_alloc_chrdev_region
  \/ km_class_create
  \/ km_cdev_add
  \/ km_device_create
  \/ km_fail_class_create
  \/ km_fail_chrdev_region
  \/ km_fail_vmap
  \/ km_fail_alloc_pages

\* The publish calls made so far, in the order of their fetch-add.
CallIds == 1..Len(calls)

\* ------------------------------------------------------ C API (rt_c.cpp)

\* The thread that uses the C API publishes as this producer and is the
\* consumer.
CThread == "u1"

\* set_last_error(""), and the call that begins is fn.
Enter(fn) == [capi EXCEPT !.last_error = "", !.fn = fn, !.ret = "none",
                          !.bad = "none", !.raised = "none"]
\* The call returns ret.
Return(c, ret) == [c EXCEPT !.pc = "idle", !.ret = ret]

\* hires_connect's handlers keep a message for HiResError only.
ConnectError_typed_only(thrown) ==
  IF thrown = "HiResError" THEN "HiResError::what()" ELSE ""

\* catch (const HiResError& e) set_last_error(e.what()); catch (const
\* std::bad_alloc&) ...; catch (...) set_last_error("Unknown exception ...")
ConnectError(thrown) ==
  CASE thrown = "HiResError" -> "HiResError::what()"
    [] thrown = "std::bad_alloc" -> "Memory allocation failed during connect"
    [] OTHER -> "Unknown exception during connect"

\* set_last_error(""); try { ... new HiResConn(path): operator new may throw
\* std::bad_alloc before the constructor runs
hires_connect_enter ==
  /\ capi.pc = "idle"
  /\ ~capi.handle
  /\ conn.pc = "none"
  /\ \E alloc_ok \in BOOLEAN :
       capi' = IF alloc_ok THEN [Enter("hires_connect") EXCEPT !.pc = "connect"]
               ELSE Return([Enter("hires_connect") EXCEPT
                              !.raised = "std::bad_alloc",
                              !.last_error = ConnectError("std::bad_alloc")], "NULL")
  /\ UNCHANGED <<conv, ring, ioctl, hdr, conn, kmod>>

\* return reinterpret_cast<HiResLoggerConnHandle*>(conn); or one of the catch
\* clauses: set_last_error(...); return nullptr
hires_connect_return ==
  /\ capi.pc = "connect"
  /\ conn.pc \in {"attached", "thrown"}
  /\ IF conn.pc = "attached"
       THEN /\ capi' = Return([capi EXCEPT !.handle = TRUE], "handle")
            /\ UNCHANGED conn
       ELSE /\ capi' = Return([capi EXCEPT !.raised = conn.thrown,
                                           !.last_error = ConnectError(conn.thrown)], "NULL")
            /\ conn' = NoConn
  /\ UNCHANGED <<conv, ring, ioctl, hdr, kmod>>

\* set_last_error(""); if (handle != nullptr) delete conn
hires_disconnect ==
  /\ capi.pc = "idle"
  /\ \E null \in BOOLEAN :
       /\ ~null => capi.handle
       /\ capi' = Return([Enter("hires_disconnect") EXCEPT
                            !.handle = IF null THEN capi.handle ELSE FALSE], "void")
       /\ conn' = IF null THEN conn ELSE NoConn
  /\ UNCHANGED <<conv, ring, ioctl, hdr, kmod>>

\* hires_log: if (handle == nullptr) { set_last_error("Invalid handle ...");
\* return false; }
capi_hires_log_null ==
  /\ capi.pc = "idle"
  /\ capi' = Return([Enter("hires_log") EXCEPT
                       !.bad = "handle",
                       !.last_error = "Invalid handle passed to profiler_log"], "false")
  /\ UNCHANGED <<conv, ring, ioctl, hdr, conn, kmod>>

\* hires_log with a handle: set_last_error(""); try { return conn->log(...),
\* up to the first access of log to the ring, the fetch_add on head
capi_hires_log_enter ==
  /\ capi.pc = "idle"
  /\ capi.handle
  /\ prod[CThread].pc = "idle"
  /\ Len(calls) < MaxCalls
  /\ capi' = [Enter("hires_log") EXCEPT !.pc = "log"]
  /\ prod' = [prod EXCEPT ![CThread] = [IdleProd EXCEPT !.pc = "load_tail",
                                          !.head = head, !.event_id = Len(calls) + 1]]
  /\ head' = head + 1
  /\ calls' = Append(calls, [h |-> head, kernel |-> FALSE, ret |-> "reserved"])
  /\ UNCHANGED <<conv, tail, dropped_count, buffer, cons, popped, ioctl, hdr, conn, kmod>>

\* entry->timestamp = get_monotonic_ns(), when clock_gettime fails:
\* throw_system_error("clock_gettime(CLOCK_MONOTONIC) failed")
log_throw_clock_gettime(p) ==
  /\ prod[p].pc = "write_ts_ev"
  /\ calls' = [calls EXCEPT ![prod[p].event_id].ret = "thrown"]
  /\ prod' = [prod EXCEPT ![p] = IdleProd]
  /\ UNCHANGED <<ctl, head, tail, dropped_count, buffer, cons, popped>>

\* The publish call the C API thread made last.
LastLog == CHOOSE id \in CallIds :
             ~calls[id].kernel /\ \A j \in CallIds : ~calls[j].kernel => j <= id

\* return conn->log(...); or catch (const std::exception& e)
\* { set_last_error("Exception during log: " + e.what()); return false; }
capi_hires_log_return ==
  /\ capi.pc = "log"
  /\ prod[CThread].pc = "idle"
  /\ capi' = IF calls[LastLog].ret = "thrown"
               THEN Return([capi EXCEPT !.raised = "std::system_error",
                                        !.last_error = "Exception during log"], "false")
             ELSE Return(capi, IF calls[LastLog].ret = "Ok" THEN "true" ELSE "false")
  /\ UNCHANGED <<conv, ring, ioctl, hdr, conn, kmod>>

\* capi_hires_pop_invalid with the arguments tested after conn->pop() took
\* the entry.
capi_hires_pop_invalid_late(bad) ==
  /\ capi.pc = "idle"
  /\ cons.pc = "idle"
  /\ bad \in {"handle", "entry"}
  /\ capi' = Return([Enter("hires_pop") EXCEPT
                       !.bad = bad,
                       !.last_error = IF bad = "handle"
                                        THEN "Invalid handle passed to hires_pop"
                                      ELSE "NULL entry pointer passed to hires_pop"],
                    "false")
  /\ tail' = IF tail # head THEN tail + 1 ELSE tail
  /\ UNCHANGED <<conv, head, dropped_count, buffer, prod, cons, calls, popped,
                 ioctl, hdr, conn, kmod>>

\* hires_pop: if (handle == nullptr) { set_last_error(...); return false; }
\* if (entry == nullptr) { set_last_error(...); return false; }
capi_hires_pop_invalid(bad) ==
  /\ capi.pc = "idle"
  /\ cons.pc = "idle"
  /\ bad \in {"handle", "entry"}
  /\ capi' = Return([Enter("hires_pop") EXCEPT
                       !.bad = bad,
                       !.last_error = IF bad = "handle"
                                        THEN "Invalid handle passed to hires_pop"
                                      ELSE "NULL entry pointer passed to hires_pop"],
                    "false")
  /\ UNCHANGED <<conv, ring, ioctl, hdr, conn, kmod>>

\* capi_hires_pop_enter without set_last_error(""): the message of the
\* thread's previous call is kept.
capi_hires_pop_enter_keep_error ==
  /\ capi.pc = "idle"
  /\ capi.handle
  /\ cons.pc = "idle"
  /\ capi' = [capi EXCEPT !.fn = "hires_pop", !.ret = "none", !.bad = "none",
                          !.raised = "none", !.pc = "pop", !.mark = Len(popped)]
  /\ cons' = [IdleCons EXCEPT !.pc = "load_head", !.tail = tail]
  /\ UNCHANGED <<conv, head, tail, dropped_count, buffer, prod, calls, popped,
                 ioctl, hdr, conn, kmod>>

\* hires_pop with a handle and an entry pointer: set_last_error(""); try {
\* result = conn->pop(), up to the first access of pop to the ring, the load
\* of tail. mark: the number of entries popped before the call.
capi_hires_pop_enter ==
  /\ capi.pc = "idle"
  /\ capi.handle
  /\ cons.pc = "idle"
  /\ capi' = [Enter("hires_pop") EXCEPT !.pc = "pop", !.mark = Len(popped)]
  /\ cons' = [IdleCons EXCEPT !.pc = "load_head", !.tail = tail]
  /\ UNCHANGED <<conv, head, tail, dropped_count, buffer, prod, calls, popped,
                 ioctl, hdr, conn, kmod>>

\* if (result.has_value()) { *entry = result.value(); return true; }
\* else return false
capi_hires_pop_return ==
  /\ capi.pc = "pop"
  /\ cons.pc = "idle"
  /\ capi' = Return([capi EXCEPT !.mark = 0],
                    IF Len(popped) > capi.mark THEN "true" ELSE "false")
  /\ UNCHANGED <<conv, ring, ioctl, hdr, conn, kmod>>

\* ------------------------------------------------- Cycles helpers (cycles.cc)

\* The largest multiple of Step and the largest offset from it among the
\* arguments of the helpers.
MaxK == 4
MaxD == 3
Step == 250
ConvInputs == {k * Step + d : k \in 0..MaxK, d \in 0..MaxD}

\* The frequencies passed as cyclesPerSec, in cycles per microsecond:
\* cyclesPerSec = cycles_per_us * 1e6, up to MaxFreq MHz.
MaxFreq == 7
ConvFreqs == 1..MaxFreq

\* (uint64_t)(v + 0.5) for the non-negative quotient v = num / den
RoundHalfUp(num, den) == (2 * num + den) \div (2 * den)

\* return (uint64_t)(1e09 * static_cast<double>(cycles) / cyclesPerSec + 0.5)
toNanoseconds(cycles, f) == RoundHalfUp(1000 * cycles, f)

\* return toNanoseconds(cycles, cyclesPerSec) / 1000
toMicroseconds(cycles, f) == toNanoseconds(cycles, f) \div 1000

\* return (uint64_t)(static_cast<double>(ns) * cyclesPerSec / 1e09 + 0.5)
fromNanoseconds(ns, f) == RoundHalfUp(ns * f, 1000)

\* return fromNanoseconds(1000 * us, cyclesPerSec)
fromMicroseconds(us, f) == fromNanoseconds(1000 * us, f)

\* The results of the helper on x and on y are returned to the caller.
ConvReturn(rx, ry) == [conv EXCEPT !.pc = "done", !.rx = rx, !.ry = ry]

\* Cycles::toNanoseconds(x, f) and Cycles::toNanoseconds(y, f)
Cycles_toNanoseconds ==
  /\ conv.pc = "call"
  /\ conv.fn = "toNanoseconds"
  /\ conv' = ConvReturn(toNanoseconds(conv.x, conv.cycles_per_us),
                        toNanoseconds(conv.y, conv.cycles_per_us))
  /\ UNCHANGED <<ring, ioctl, hdr, conn, kmod, capi>>

\* Cycles::toMicroseconds(x, f) and Cycles::toMicroseconds(y, f)
Cycles_toMicroseconds ==
  /\ conv.pc = "call"
  /\ conv.fn = "toMicroseconds"
  /\ conv' = ConvReturn(toMicroseconds(conv.x, conv.cycles_per_us),
                        toMicroseconds(conv.y, conv.cycles_per_us))
  /\ UNCHANGED <<ring, ioctl, hdr, conn, kmod, capi>>

\* Cycles::fromNanoseconds(x, f) and Cycles::fromNanoseconds(y, f)
Cycles_fromNanoseconds ==
  /\ conv.pc = "call"
  /\ conv.fn = "fromNanoseconds"
  /\ conv' = ConvReturn(fromNanoseconds(conv.x, conv.cycles_per_us),
                        fromNanoseconds(conv.y, conv.cycles_per_us))
  /\ UNCHANGED <<ring, ioctl, hdr, conn, kmod, capi>>

\* Cycles::fromMicroseconds(x, f) and Cycles::fromMicroseconds(y, f)
Cycles_fromMicroseconds ==
  /\ conv.pc = "call"
  /\ conv.fn = "fromMicroseconds"
  /\ conv' = ConvReturn(fromMicroseconds(conv.x, conv.cycles_per_us),
                        fromMicroseconds(conv.y, conv.cycles_per_us))
  /\ UNCHANGED <<ring, ioctl, hdr, conn, kmod, capi>>

\* ---------------------------------------------------------- specification

Next ==
  \/ \E p \in UserProcs : log(p)
  \/ \E p \in KernProcs : hires_log(p)
  \/ pop

Spec == Init /\ [][Next]_vars

\* User-space producers and the consumer only (rt.cpp alone).
NextUser ==
  \/ \E p \in UserProcs : log(p)
  \/ pop

SpecUser == Init /\ [][NextUser]_vars

\* Every thread that is inside a call finishes it, and the consumer keeps
\* calling pop(): the threads are scheduled by the OS and no step blocks.
SpecUserFair ==
  /\ Init
  /\ [][NextUser]_vars
  /\ WF_vars(pop)
  /\ \A p \in UserProcs : WF_vars(log(p))

\* The consumer thread alone is scheduled fairly: a producer may stop anywhere,
\* also between its fetch-add and its publishing store.
SpecUserPopFair ==
  /\ Init
  /\ [][NextUser]_vars
  /\ WF_vars(pop)

\* Non-overlapping calls: at most one thread is inside a call at any time.
Busy == {p \in Procs : prod[p].pc # "idle"} \cup (IF cons.pc # "idle" THEN {"consumer"} ELSE {})
NextUserSeq ==
  \/ \E p \in UserProcs : Busy \subseteq {p} /\ log(p)
  \/ Busy \subseteq {"consumer"} /\ pop
SpecUserSeq == Init /\ [][NextUserSeq]_vars

\* All publish calls of the run are made, by any mix of producers, before the
\* consumer's first pop().
AllPublished == Len(calls) = MaxCalls /\ \A p \in Procs : prod[p].pc = "idle"
NextBurst ==
  \/ \E p \in UserProcs : log(p)
  \/ \E p \in KernProcs : hires_log(p)
  \/ AllPublished /\ pop
SpecBurst == Init /\ [][NextBurst]_vars

\* insmod with any rb_size_log2 for which 1UL << rb_size_log2 is defined and
\* not larger than 2^MaxLog2; nothing else runs before the module is loaded,
\* and then a handle is constructed.
InitKm ==
  /\ InitRing
  /\ hdr = ZeroHdr
  /\ \E log2 \in 0..MaxLog2 : kmod = StartKm(log2)
NextInit ==
  \/ hireslogger_km_init
  \/ kmod.pc = "loaded" /\ HiResConn
SpecInit == InitKm /\ [][NextInit]_vars

\* A quiesced ring: publish calls, pop() calls and the Reset request do not
\* overlap one another. A handle is constructed, and asked for the geometry,
\* at any time.
Quiet(who) == Busy \subseteq {who} /\ ioctl.pc = "idle"
NextQuiesced ==
  \/ \E p \in UserProcs : Quiet(p) /\ log(p)
  \/ \E p \in KernProcs : Quiet(p) /\ hires_log(p)
  \/ Quiet("consumer") /\ pop
  \/ Busy = {} /\ ioctl_reset
  \/ HiResConn
  \/ get_rb_meta
SpecQuiesced == Init /\ [][NextQuiesced]_vars

\* Producers quiesced around Reset, as the contract of Reset requires: no
\* publish call is in progress while the request runs. The consumer is not
\* held back: a pop() and a Reset overlap in every way. Publish calls overlap
\* nothing.
ProducersQuiet == \A p \in Procs : prod[p].pc = "idle"
NextResetPop ==
  \/ \E p \in UserProcs : Quiet(p) /\ log(p)
  \/ \E p \in KernProcs : Quiet(p) /\ hires_log(p)
  \/ ProducersQuiet /\ pop
  \/ ProducersQuiet /\ ioctl_reset
SpecResetPop == Init /\ [][NextResetPop]_vars

\* One thread uses the C API: it connects, publishes with hires_log, takes
\* entries with hires_pop, passes NULL arguments, disconnects. A kernel
\* producer publishes concurrently.
NextCApi ==
  \/ hires_connect_enter
  \/ capi.pc = "connect" /\ HiResConn
  \/ hires_connect_return
  \/ hires_disconnect
  \/ capi_hires_log_null
  \/ capi_hires_log_enter
  \/ capi.pc = "log" /\ log_load_tail(CThread)
  \/ capi.pc = "log" /\ log_drop(CThread)
  \/ capi.pc = "log" /\ log_write_ts_ev(CThread)
  \/ capi.pc = "log" /\ log_throw_clock_gettime(CThread)
  \/ capi.pc = "log" /\ log_write_data(CThread)
  \/ capi.pc = "log" /\ log_store_flags(CThread)
  \/ capi_hires_log_return
  \/ \E bad \in {"handle", "entry"} : capi_hires_pop_invalid(bad)
  \/ capi_hires_pop_enter
  \/ capi.pc = "pop" /\ pop_load_head
  \/ capi.pc = "pop" /\ pop_wait_valid
  \/ capi.pc = "pop" /\ pop_copy
  \/ capi.pc = "pop" /\ pop_load_flags
  \/ capi.pc = "pop" /\ pop_store_flags
  \/ capi.pc = "pop" /\ pop_store_tail
  \/ capi_hires_pop_return
  \/ \E p \in KernProcs : hires_log(p)
SpecCApi == Init /\ [][NextCApi]_vars

\* The user-space producers of rt.cpp with a consumer whose pop() does not
\* clear VALID: every other step of pop() is the code's.
NextNoClear ==
  \/ \E p \in UserProcs : log(p)
  \/ pop_load_tail
  \/ pop_load_head
  \/ pop_wait_valid
  \/ pop_copy
  \/ pop_without_clear
  \/ pop_store_tail
SpecNoClear == Init /\ [][NextNoClear]_vars

\* One helper of Cycles is called with a frequency and two arguments x <= y.
InitCycles ==
  /\ head = 0
  /\ tail = 0
  /\ dropped_count = 0
  /\ buffer = [i \in 0..(capacity - 1) |-> ZeroEntry]
  /\ prod = [p \in Procs |-> IdleProd]
  /\ cons = IdleCons
  /\ calls = <<>>
  /\ popped = <<>>
  /\ ioctl = IdleIoctl
  /\ conn = NoConn
  /\ capi = IdleCapi
  /\ hdr = km_header(rb_size_log2)
  /\ kmod = LoadedKm(rb_size_log2)
  /\ \E fn \in {"toNanoseconds", "toMicroseconds", "fromNanoseconds", "fromMicroseconds"} :
       \E f \in ConvFreqs : \E x \in ConvInputs : \E y \in ConvInputs :
         /\ x <= y
         /\ conv = [IdleConv EXCEPT !.pc = "call", !.fn = fn, !.cycles_per_us = f,
                                    !.x = x, !.y = y]
NextCycles ==
  \/ Cycles_toNanoseconds
  \/ Cycles_toMicroseconds
  \/ Cycles_fromNanoseconds
  \/ Cycles_fromMicroseconds
SpecCycles == InitCycles /\ [][NextCycles]_vars

\* ------------------------------------------------------------- vocabulary

Returned(r) == {id \in CallIds : calls[id].ret = r}
\* The entry pop() returns for call id: the payload that call wrote.
WrittenBy(e, id) == e.event_id = id /\ e.data1 = id
PoppedIds == {popped[k].event_id : k \in 1..Len(popped)}
Writing(p) == prod[p].pc \in {"write_ts_ev", "write_data"}
PastCheck(p) == prod[p].pc \in {"write_ts_ev", "write_data", "store_flags", "read_flags", "cmpxchg"}
PopReturnsEmpty == cons.pc \in {"load_head", "wait_valid"} /\ cons'.pc = "idle"
PopReturnsEntry == cons.pc = "store_tail" /\ cons'.pc = "idle"

\* ------------------------------------------------------------------ claims

\* C1: the entries returned by successive successful pop() calls are in
\* strictly increasing order of the head value their calls reserved.
C1_PopOrder ==
  \A j \in 1..Len(popped) : \A k \in 1..Len(popped) :
    j < k =>
      /\ popped[j].event_id \in CallIds
      /\ popped[k].event_id \in CallIds
      /\ calls[popped[j].event_id].h < calls[popped[k].event_id].h

\* C2: every publish that returned Ok is eventually returned by a pop() with
\* the same (event_id, data1, data2), and by one pop() only, also when an
\* earlier publish returned Dropped.
C2_EveryOkIsPopped ==
  /\ \A id \in 1..MaxCalls :
       (id \in Returned("Ok")) ~> (\E k \in 1..Len(popped) : WrittenBy(popped[k], id))
  /\ [](\A j \in 1..Len(popped) : \A k \in 1..Len(popped) :
          j # k => popped[j].event_id # popped[k].event_id)

\* C3: every entry pop() returns has all its payload fields written by one
\* publish call, the one that reserved the head value the consumer is at, and
\* the consumer never copies a slot whose payload a producer is writing.
C3_PopIsOneGeneration ==
  /\ \A k \in 1..Len(popped) :
       \E id \in CallIds : WrittenBy(popped[k], id) /\ calls[id].h = k - 1
  /\ cons.pc = "copy" =>
       \A p \in Procs : ~(Writing(p) /\ AndMask(prod[p].head) = AndMask(cons.tail))

\* C4: a publish call that reserved h and read tail t returns Dropped if and
\* only if h - t >= capacity and otherwise writes slot h & idx_mask; so no
\* producer writes a slot that holds a published entry not yet popped.
C4_DroppedIffFull ==
  \A p \in Procs :
    /\ prod[p].pc = "drop" => prod[p].head - prod[p].tail >= capacity
    /\ PastCheck(p) => prod[p].head - prod[p].tail < capacity
    /\ Writing(p) => ~HasFlag(buffer[AndMask(prod[p].head)].flags, LOG_FLAG_VALID)

\* C5: every entry pop() returns is the entry of exactly one publish call
\* that returned Ok, and no publish is returned by pop() twice.
C5_PopIsOnePublish ==
  /\ \A k \in 1..Len(popped) :
       \E id \in Returned("Ok") : WrittenBy(popped[k], id)
  /\ \A j \in 1..Len(popped) : \A k \in 1..Len(popped) :
       j # k => popped[j].event_id # popped[k].event_id

\* C6: dropped_count equals the number of publish calls, user and kernel,
\* that returned Dropped.
C6_DroppedCount == dropped_count = Cardinality(Returned("Dropped"))

\* C6 witness: a user call and a kernel call have both returned Dropped.
C6_Witness ==
  /\ \E id \in Returned("Dropped") : calls[id].kernel
  /\ \E id \in Returned("Dropped") : ~calls[id].kernel
  /\ dropped_count = 2

\* C7: when N > capacity publish calls are made on an empty ring before any
\* pop(), exactly capacity of them return Ok and N - capacity return Dropped,
\* dropped_count = N - capacity, the next pops return the accepted entries in
\* reservation order, and pop() returns Empty only after all of them.
C7_FillThenDrain ==
  /\ [](AllPublished =>
          /\ Cardinality(Returned("Ok")) = capacity
          /\ Cardinality(Returned("Dropped")) = MaxCalls - capacity
          /\ dropped_count = MaxCalls - capacity
          /\ Len(popped) <= capacity
          /\ \A k \in 1..Len(popped) : WrittenBy(popped[k], k) /\ calls[k].ret = "Ok")
  /\ [][PopReturnsEmpty => Len(popped) = capacity]_vars

\* The bounded FIFO queue the ring stands for between calls: the calls that
\* returned Ok and were not popped yet, oldest first.
RECURSIVE QueueFrom(_)
QueueFrom(id) ==
  IF id > Len(calls) THEN <<>>
  ELSE IF calls[id].ret = "Ok" /\ id \notin PoppedIds
         THEN <<id>> \o QueueFrom(id + 1)
       ELSE QueueFrom(id + 1)
Queue == QueueFrom(1)

\* C8: over non-overlapping calls the ring is a FIFO queue bounded at
\* capacity: publish returns Dropped exactly when the queue is full and
\* otherwise appends; pop() returns Empty exactly when the queue is empty and
\* otherwise returns the oldest entry.
C8_BoundedFifo ==
  [][/\ \A p \in UserProcs :
          /\ (prod[p].pc = "drop" /\ prod'[p].pc = "idle") => Len(Queue) = capacity
          /\ (prod[p].pc = "store_flags" /\ prod'[p].pc = "idle") => Len(Queue) < capacity
     /\ PopReturnsEmpty => Queue = <<>>
     /\ PopReturnsEntry =>
          /\ Queue # <<>>
          /\ WrittenBy(cons.result_entry, Head(Queue))]_vars

\* C9: every pop() returns, after at most max_spins re-reads of the flags,
\* whatever the producers do: each re-read that stays in the loop counts one
\* more spin, and the count never exceeds max_spins.
C9_BoundedSpin ==
  /\ [](cons.spin_count <= max_spins)
  /\ [][(cons.pc = "wait_valid" /\ cons'.pc = "wait_valid" /\ cons' # cons)
          => cons'.spin_count = cons.spin_count + 1]_vars
  /\ (cons.pc # "idle") ~> (cons.pc = "idle")

\* C9 witness: the consumer has used its whole spin budget on a slot whose
\* producer reserved it and has not published.
C9_Witness ==
  /\ cons.pc = "wait_valid"
  /\ cons.spin_count = max_spins
  /\ \E p \in Procs : prod[p].pc # "idle" /\ prod[p].head = cons.tail

\* C10: while the producer that reserved the head value at tail has not
\* published, pop() does not take the slot, whatever later producers have
\* published; the entry popped at tail = t is the entry of the call that
\* reserved t.
C10_WaitsForTailSlot ==
  /\ cons.pc \in {"copy", "load_flags", "store_flags", "store_tail"} =>
       \E id \in Returned("Ok") : calls[id].h = cons.tail
  /\ \A k \in 1..Len(popped) :
       \E id \in CallIds : WrittenBy(popped[k], id) /\ calls[id].h = k - 1

\* C11: publish is wait-free: a call takes a number of its own steps that does
\* not depend on what the other threads do; the compare-exchange of hires_log
\* that publishes the flags succeeds without being sent round its loop by
\* another thread.
C11_WaitFree ==
  [][\A p \in KernProcs : prod[p].pc = "cmpxchg" => prod'[p].pc # "read_flags"]_vars

\* C12: whenever no Reset is in progress, head >= tail.
C12_HeadGeqTail == ioctl.pc = "idle" => head >= tail

\* C13: the occupancy head - tail is at most capacity.
C13_Occupancy == head - tail <= capacity

\* C14: head grows by exactly 1 for every publish call, Ok or Dropped, and
\* never decreases: head equals the number of calls made, and the k-th call
\* reserved k - 1.
C14_HeadCounts ==
  /\ head = Len(calls)
  /\ \A id \in CallIds : calls[id].h = id - 1

\* C14 witness: a user call and a kernel call have returned Dropped, other
\* calls have returned Ok, and head counts all of them.
C14_Witness ==
  /\ head = MaxCalls
  /\ \E id \in Returned("Dropped") : calls[id].kernel
  /\ \E id \in Returned("Dropped") : ~calls[id].kernel
  /\ Returned("Ok") # {}

\* C15: an entry returned by pop() has the KERNEL bit set if and only if the
\* call that wrote it was a hires_log call, and when pop() has cleared the
\* flags of the slot it is about to leave, the slot's VALID bit is clear.
C15_KernelFlag ==
  /\ \A k \in 1..Len(popped) :
       /\ popped[k].event_id \in CallIds
       /\ HasFlag(popped[k].flags, LOG_FLAG_KERNEL) <=> calls[popped[k].event_id].kernel
  /\ cons.pc = "store_tail" => ~HasFlag(buffer[AndMask(cons.tail)].flags, LOG_FLAG_VALID)

\* No publish call was made since the last Reset finished.
FreshlyReset == ioctl.pc = "idle" /\ ioctl.resets > 0 /\ Len(calls) = ioctl.base
NoSlotValid == \A i \in 0..(capacity - 1) : ~HasFlag(buffer[i].flags, LOG_FLAG_VALID)

\* C16: after a Reset on a quiesced ring head = tail = dropped_count = 0 and
\* no slot is VALID, so a pop() gets no further than its emptiness test and
\* none of the next capacity publish calls is dropped.
C16_ResetClears ==
  /\ FreshlyReset =>
       /\ head = 0 /\ tail = 0 /\ dropped_count = 0
       /\ NoSlotValid
       /\ cons.pc \in {"idle", "load_head"}
  /\ ioctl.resets > 0 =>
       \A id \in CallIds :
         (id > ioctl.base /\ id <= ioctl.base + capacity)
           => calls[id].ret \notin {"full", "Dropped"}

\* C16 witness: the ring was full of unpopped entries when Reset ran, and the
\* capacity publish calls made after it have all returned Ok.
C16_Witness ==
  /\ ioctl.resets > 0
  /\ ioctl.base = capacity
  /\ popped = <<>>
  /\ Len(calls) = ioctl.base + capacity
  /\ \A id \in CallIds : calls[id].ret = "Ok"

\* C17: with the producers quiesced, once a Reset and the pop() calls that
\* overlapped it have finished, head = tail = dropped_count = 0, head >= tail
\* and no slot is VALID.
C17_ResetAtomic ==
  (FreshlyReset /\ cons.pc = "idle") =>
    /\ head = 0 /\ tail = 0 /\ dropped_count = 0
    /\ head >= tail
    /\ NoSlotValid

\* C18: no publish, pop, Reset, attach or GetGeometry changes the geometry
\* fields of the header; every GetGeometry that succeeds returns the header's
\* record, and the values the handle cached stay equal to the header's.
C18_GeometryFixed ==
  /\ [][hdr' = hdr]_vars
  /\ [](conn.meta.has_value =>
          /\ conn.meta.capacity = capacity
          /\ conn.meta.idx_mask = idx_mask
          /\ conn.meta = ioctl_get_rb_meta(TRUE))
  /\ [](conn.pc \in {"get_cycles", "mmap", "attached"} =>
          /\ conn.rb_runtime_capacity_ = hdr.capacity
          /\ conn.rb_runtime_idx_mask_ = hdr.idx_mask
          /\ conn.rb_runtime_shm_size_ = hdr.shm_size_bytes_unaligned)

\* C18 witness: the handle is attached and has asked for the geometry again
\* after entries were published and popped and the ring was reset.
C18_Witness ==
  /\ conn.pc = "attached"
  /\ conn.meta.has_value
  /\ ioctl.resets > 0
  /\ popped # <<>>
  /\ head > 0

IsPow2(n) == \E k \in 0..(MaxLog2 + 1) : n = 2 ^ k

\* C19: whenever hireslogger_km_init succeeds, capacity is a power of two, at
\* least 2, and idx_mask = capacity - 1.
C19_CapacityPow2 ==
  kmod.pc = "loaded" =>
    /\ IsPow2(hdr.capacity)
    /\ hdr.capacity >= 2
    /\ hdr.idx_mask = hdr.capacity - 1

\* C20: a constructor that fails, at open, at the GetGeometry request or at
\* mmap, throws HiResError.
C20_OneErrorKind == conn.pc = "thrown" => conn.thrown = "HiResError"

\* C21: attaching fails whenever the GetCyclesPerMicrosecond request made
\* during the attach fails: no handle gets past that request holding the 0
\* that get_kmod_cycles_per_us returns for a failed request.
C21_AttachFailsUncalibrated ==
  conn.pc \in {"mmap", "attached"} => conn.rb_runtime_cycle_per_us_ # 0

C23_ConnectResult ==
  (capi.pc = "idle" /\ capi.fn = "hires_connect") =>
    /\ capi.ret \in {"NULL", "handle"}
    /\ (capi.ret = "NULL") <=> (capi.raised # "none")
    /\ capi.ret = "NULL" => (capi.last_error # "" /\ ~capi.handle /\ conn.pc = "none")
    /\ capi.ret = "handle" => (capi.last_error = "" /\ capi.handle /\ conn.pc = "attached")

\* C23 witness: hires_connect returned NULL because open() failed, which the
\* constructor reports with std::system_error, and left a message.
C23_Witness ==
  /\ capi.pc = "idle"
  /\ capi.fn = "hires_connect"
  /\ capi.ret = "NULL"
  /\ capi.raised = "std::system_error"
  /\ capi.last_error = "Unknown exception during connect"

\* The messages a call of fn can leave.
ErrorsOf(fn) ==
  CASE fn = "hires_connect" -> {ConnectError(t) : t \in {"HiResError", "std::bad_alloc", "std::system_error"}}
    [] fn = "hires_log" -> {"Invalid handle passed to profiler_log", "Exception during log"}
    [] fn = "hires_pop" -> {"Invalid handle passed to hires_pop",
                            "NULL entry pointer passed to hires_pop"}
    [] OTHER -> {}

\* C24: after a C API call returned, the thread's last error is that call's:
\* empty when the call met no error (also when hires_pop returned false for
\* an empty or not ready ring and when hires_log returned false for a drop),
\* one of the call's own messages when it was passed a NULL argument or an
\* exception was caught; the message of an earlier call never survives.
C24_LastErrorOfCall ==
  capi.pc = "idle" =>
    /\ (capi.last_error = "") <=> (capi.bad = "none" /\ capi.raised = "none")
    /\ capi.last_error \in ErrorsOf(capi.fn) \cup {""}
    /\ (capi.fn \in {"hires_log", "hires_pop"} /\ capi.ret = "true")
         => capi.last_error = ""

\* C24 witness: hires_pop returned false with valid arguments (empty ring or
\* tail slot not ready) and the last error is empty.
C24_Witness ==
  /\ capi.pc = "idle"
  /\ capi.fn = "hires_pop"
  /\ capi.ret = "false"
  /\ capi.bad = "none"
  /\ capi.last_error = ""

\* C25: a C API call with an invalid argument (NULL handle, NULL entry
\* pointer) returns false and leaves head, tail, dropped_count and every slot
\* of the ring as they were.
C25_InvalidCallNoEffect ==
  [][(capi' # capi /\ capi'.pc = "idle" /\ capi'.bad # "none")
       => (capi'.ret = "false" /\ UNCHANGED <<head, tail, dropped_count, buffer>>)]_vars

\* C25 witness: hires_pop was called with a NULL entry pointer while the tail
\* slot held a published entry, and the entry is still there.
C25_Witness ==
  /\ capi.pc = "idle"
  /\ capi.fn = "hires_pop"
  /\ capi.bad = "entry"
  /\ tail # head
  /\ HasFlag(buffer[AndMask(tail)].flags, LOG_FLAG_VALID)

\* C26: a drop does not disable the ring when every thread keeps running and
\* the consumer keeps calling pop(): an entry whose publish returned Ok after
\* an earlier call returned Dropped is eventually returned by pop(), and after
\* a drop the consumer never stays for ever at a tail behind head.
C26_DropDoesNotDisable ==
  /\ \A id \in 1..MaxCalls :
       (id \in Returned("Ok") /\ \E d \in Returned("Dropped") : d < id)
         ~> (id \in PoppedIds)
  /\ \A t \in 0..MaxCalls :
       (Returned("Dropped") # {} /\ tail = t /\ head # t) ~> (tail # t)

\* C27: the steps of a pop() that returns Empty (the loads of tail and head,
\* the bounded wait for VALID) change nothing: head, tail, dropped_count and
\* the flags and payload of every slot stay as they were, nothing is returned.
C27_EmptyPopNoEffect ==
  [][(cons' # cons /\ cons.pc \in {"idle", "load_head", "wait_valid"})
       => UNCHANGED <<head, tail, dropped_count, buffer, popped>>]_vars

\* C27 witness: the producers are idle, tail is behind head, the tail slot is
\* not VALID and pop() has used its whole spin budget: its next step returns
\* Empty.
C27_Witness ==
  /\ cons.pc = "wait_valid"
  /\ cons.spin_count = max_spins
  /\ tail # head
  /\ ~HasFlag(buffer[AndMask(tail)].flags, LOG_FLAG_VALID)
  /\ \A p \in Procs : prod[p].pc = "idle"

\* C28: a successful pop() clears only the VALID bit of the slot it read (the
\* other flag bits, the payload and every other slot stay), then advances tail
\* by exactly 1 and returns the copy it took while VALID was set; it leaves
\* head and dropped_count unchanged.
C28_PopEffect ==
  [][/\ (cons.pc = "store_flags" /\ cons'.pc = "store_tail")
          => /\ buffer' = [buffer EXCEPT ![AndMask(tail)].flags =
                                           ClearFlag(@, LOG_FLAG_VALID)]
             /\ UNCHANGED <<head, tail, dropped_count>>
     /\ PopReturnsEntry
          => /\ tail' = tail + 1
             /\ UNCHANGED <<head, dropped_count, buffer>>
             /\ popped' = Append(popped, cons.result_entry)
             /\ HasFlag(cons.result_entry.flags, LOG_FLAG_VALID)
     /\ (cons' # cons /\ cons.pc \in {"copy", "load_flags"})
          => UNCHANGED <<head, tail, dropped_count, buffer>>
    ]_vars

\* C29: a publish call that returns Dropped changes only head, by its
\* fetch-add, and dropped_count, by 1: its capacity check and its drop step
\* leave tail and every slot as they were, and no slot ever holds anything
\* written by a call that found the ring full.
C29_DropEffect ==
  /\ [](\A id \in Returned("Dropped") \cup Returned("full") :
          \A i \in 0..(capacity - 1) :
            buffer[i].event_id # id /\ buffer[i].data1 # id)
  /\ [][\A p \in Procs :
          /\ (prod[p].pc = "load_tail" /\ prod'[p].pc = "drop")
               => UNCHANGED <<head, tail, dropped_count, buffer>>
          /\ (prod[p].pc = "drop" /\ prod'[p].pc = "idle")
               => /\ dropped_count' = dropped_count + 1
                  /\ UNCHANGED <<head, tail, buffer>>]_vars

\* C29 witness: a user-space call and a kernel call have returned Dropped
\* while the slots they reserved held published entries of other calls.
C29_Witness ==
  /\ \E id \in Returned("Dropped") : calls[id].kernel
  /\ \E id \in Returned("Dropped") : ~calls[id].kernel
  /\ dropped_count = 2
  /\ \A i \in 0..(capacity - 1) : HasFlag(buffer[i].flags, LOG_FLAG_VALID)

\* C30: two producers are never both between their capacity check and their
\* publishing store for the same slot.
C30_OneWriterPerSlot ==
  \A p \in Procs : \A q \in Procs :
    (p # q /\ PastCheck(p) /\ PastCheck(q))
      => AndMask(prod[p].head) # AndMask(prod[q].head)

Nearest(r, num, den) ==
  LET d == r * den - num IN 2 * (IF d < 0 THEN -d ELSE d) <= den

\* C32: for a fixed frequency each conversion helper is monotonically
\* non-decreasing in its argument and returns the exact converted value
\* rounded to the nearest integer: cycles * 1000 / f nanoseconds, cycles / f
\* microseconds, ns * f / 1000 cycles, us * f cycles (f in cycles per
\* microsecond).
C32_ConversionsRoundToNearest ==
  conv.pc = "done" =>
    /\ conv.rx <= conv.ry
    /\ conv.fn = "toNanoseconds" =>
         Nearest(conv.rx, 1000 * conv.x, conv.cycles_per_us)
    /\ conv.fn = "toMicroseconds" =>
         Nearest(conv.rx, conv.x, conv.cycles_per_us)
    /\ conv.fn = "fromNanoseconds" =>
         Nearest(conv.rx, conv.x * conv.cycles_per_us, 1000)
    /\ conv.fn = "fromMicroseconds" =>
         Nearest(conv.rx, conv.x * conv.cycles_per_us, 1)

\* C33: from the moment a producer has passed its capacity check for slot i
\* until its publishing store, the VALID bit of slot i is clear, so the
\* consumer is not copying or clearing that slot meanwhile.
C33_WriterSlotNotValid ==
  \A p \in Procs :
    PastCheck(p) =>
      /\ ~HasFlag(buffer[AndMask(prod[p].head)].flags, LOG_FLAG_VALID)
      /\ cons.pc \in {"copy", "load_flags", "store_flags", "store_tail"}
           => AndMask(cons.tail) # AndMask(prod[p].head)

\* C34: between the load of the tail slot's flags by pop() and its store of
\* the cleared value no producer changes the flags of that slot: the value
\* pop() is about to overwrite is the one it loaded, and it has VALID set.
C34_ClearErasesNothing ==
  cons.pc = "store_flags" =>
    /\ buffer[AndMask(cons.tail)].flags = cons.current_flags
    /\ HasFlag(cons.current_flags, LOG_FLAG_VALID)

\* C35: the tail a producer read for its capacity check is not greater than
\* the head value it reserved, and tail itself is never greater than the head
\* value of a producer that has reserved and not yet published or dropped.
C35_TailNotPastReservation ==
  \A p \in Procs :
    /\ prod[p].pc # "idle" => tail <= prod[p].head
    /\ prod[p].pc \notin {"idle", "load_tail"} => prod[p].tail <= prod[p].head

\* C36: in every state with no publish, pop or Reset in progress, counting
\* the calls made since the last Reset: head is the number of publish calls,
\* dropped_count the number of Dropped ones, tail the number of successful
\* pops, and the number of VALID slots is the number of Ok publishes minus the
\* number of successful pops, between 0 and capacity.
C36_QuiescentCounts ==
  (Busy = {} /\ ioctl.pc = "idle") =>
    LET since == {id \in CallIds : id > ioctl.base}
        nok == Cardinality(since \cap Returned("Ok"))
        ndropped == Cardinality(since \cap Returned("Dropped"))
        npops == Cardinality({k \in 1..Len(popped) : popped[k].event_id > ioctl.base})
        nvalid == Cardinality({i \in 0..(capacity - 1) :
                                 HasFlag(buffer[i].flags, LOG_FLAG_VALID)})
    IN /\ head = Cardinality(since)
       /\ dropped_count = ndropped
       /\ tail = npops
       /\ nvalid = nok - npops
       /\ nvalid \in 0..capacity

\* C37: a constructor that has thrown, at whichever step, has left no device
\* file descriptor open and no mapping in place.
C37_FailedAttachLeavesNothing ==
  conn.pc = "thrown" => (conn.fd_ = -1 /\ ~conn.shm_buf_)

====
